---- MODULE Spec2Model ----
(***************************************************************************)
(* The bounded multi-tenant media store of the portfolio application.      *)
(*                                                                         *)
(* Three servers implement it:                                             *)
(*   "supabase"  src/api/index.ts lines 1-439   (hosted object storage)    *)
(*   "local"     src/api/index.ts lines 441-637 (filesystem, cwd)          *)
(*   "vercel"    src/unnamed/part_006           (filesystem, /tmp)         *)
(* One of them is started (Init chooses); every request handler is one     *)
(* action.  Requests do not overlap: a handler runs to its response.       *)
(***************************************************************************)
EXTENDS Integers, Sequences, FiniteSets, TLC

VARIABLES
    variant,     \* which server runs
    configured,  \* SUPABASE_URL and a key are set (object storage only)
    clients,     \* the clients table / clients.json, in insertion order
    photos,      \* photos[id]: the objects stored under the prefix id
    dirs,        \* ids whose upload directory exists (filesystem only)
    clock,       \* new Date(), as a counter
    nextUuid,    \* uuids handed out to stored files so far
    last,        \* the last request and its response
    work,        \* work done so far
    uploaded,    \* history: names stored by successful uploads, see below
    tainted,     \* history: ids with a failed or deleting request, see below
    settings,    \* value.logo of the settings row 'branding' (NullLogo: no row)
    logos,       \* the objects stored under the prefix branding
    returned,    \* history: the logo the last successful UpdateBranding answered
    flight,      \* the DeleteTenant handler that runs step by step, see below
    pair,        \* the server that runs side by side with this one, see below
    race,        \* the CreateTenant requests that overlap in time, see below
    env,         \* SUPABASE_URL, SUPABASE_SERVICE_ROLE_KEY, SUPABASE_ANON_KEY
    bucket,      \* the storage bucket 'photos': "none", "private" or "public"
    health,      \* the last answer of GET /api/health
    panel,       \* the admin panel in the browser, see below
    indicator    \* the status indicator in the browser, see below

vars == <<variant, configured, clients, photos, dirs, clock, nextUuid,
          last, work, uploaded, tainted, settings, logos, returned, flight,
          pair, race, env, bucket, health, panel, indicator>>
storeVars == <<variant, configured, clients, photos, dirs, clock, nextUuid,
               uploaded, tainted>>
brandingVars == <<settings, logos, returned>>
sideVars == <<env, bucket, health, panel, indicator>>

(* ------------------------------ bounds --------------------------------- *)
\* identifiers the short-id generator can return
NumIds == 5
\* work done in one behaviour: a request that creates a tenant or reads a
\* gallery, the tenant list or the settings counts 1, a request that uploads
\* or deletes counts 2
MaxWork == 6
\* length of the small upload batches: up to SmallBatch valid files, or
\* fewer valid files followed by one that is not
SmallBatch == 2
\* files the operator selects for one upload in the admin panel
MaxSelected == 2
\* health polls the status indicator completes, and polls without an answer yet
MaxPolls == 4
MaxInFlight == 2
\* CreateTenant requests that may wait for their handler at the same time
MaxWaiting == 3

(* -------------------------- program constants -------------------------- *)
MaxClients == 4
MaxPhotos == 30
MaxFiles == 30
SupabaseFileSizeMB == 5
FsFileSizeMB == 10

Variants == {"supabase", "local", "vercel"}
Ids == 1..NumIds
allowedTypes == {"image/jpeg", "image/png", "image/webp"}

Min(a, b) == IF a < b THEN a ELSE b
MaxOf(S) == IF S = {} THEN 0 ELSE CHOOSE x \in S : \A y \in S : y <= x
MinOf(S) == IF S = {} THEN 0 ELSE CHOOSE x \in S : \A y \in S : x <= y
Range(s) == {s[i] : i \in 1..Len(s)}

(* ------------------------------ requests ------------------------------- *)
\* an uploaded file: declared content type and size in MB
ValidFile == [mimetype |-> "image/jpeg", size |-> 1]
FileKinds == {ValidFile,
              [mimetype |-> "text/plain", size |-> 1],
              [mimetype |-> "image/png", size |-> 6],
              [mimetype |-> "image/webp", size |-> 11]}
Uniform(k) == [i \in 1..k |-> ValidFile]
\* the multipart bodies a client sends
Batches == {Uniform(k) : k \in (0..SmallBatch) \cup {MaxFiles}}
           \cup {Uniform(k) \o <<f>> : k \in 0..(SmallBatch - 1), f \in FileKinds \ {ValidFile}}
NoFiles == << >>
NoPhotos == << >>
\* { logo: null }
NullLogo == << >>

ClientIds == {c.id : c \in Range(clients)}
\* identifiers that left a trace in the state; an identifier without a trace
\* is as good as any other unused one, so requests name the used ones and
\* the first unused one
UsedIds == ClientIds \cup {i \in Ids : photos[i] # {}} \cup dirs
           \cup tainted \cup {i \in Ids : uploaded[i] # {}}
Candidates == 1..Min(NumIds, MaxOf(UsedIds) + 1)

\* req: the request (operation, Authorization header carries the secret,
\* :id or :client, :filename, files);
\* backend: no backend call of the request failed;
\* list: the body of a success answer, the photos of a gallery, the clients
\* of the tenant list or the logo of the settings
Request(op, auth, id, name, files) ==
    [op |-> op, auth |-> auth, id |-> id, name |-> name, files |-> files]
Response(req, backend, status, error, list) ==
    [op |-> req.op, auth |-> req.auth, id |-> req.id, name |-> req.name,
     files |-> req.files,
     repeat |-> (last.op = req.op /\ last.id = req.id /\ last.name = req.name),
     backend |-> backend, status |-> status, error |-> error,
     photos |-> IF req.op \in {"ListGallery", "none"} THEN list ELSE NoPhotos,
     clients |-> IF req.op = "ListTenants" THEN list ELSE << >>,
     logo |-> IF req.op \in {"GetSettings", "UpdateBranding"} THEN list ELSE NullLogo]

\* an environment variable is unset (or empty), set to blanks or quotes only,
\* or set to a value
EnvValues == {"unset", "blank", "set"}
Envs == [url : EnvValues, service : EnvValues, anon : EnvValues]
PlainEnv(cfg) == [url |-> IF cfg THEN "set" ELSE "unset",
                  service |-> IF cfg THEN "set" ELSE "unset", anon |-> "unset"]
\* process.env.SUPABASE_SERVICE_ROLE_KEY || process.env.SUPABASE_ANON_KEY
KeyOf(e) == IF e.service # "unset" THEN e.service ELSE e.anon
\* getSupabase: null unless url and key are not empty once trimmed
getSupabase(e) == e.url = "set" /\ KeyOf(e) = "set"
\* errorDetail: null
NullDetail == "null"
NoHealth == [asked |-> FALSE, supabaseConnected |-> FALSE, errorDetail |-> NullDetail,
             db |-> "none", storage |-> "none", bucket |-> "none"]

\* the admin panel before it is mounted; version: "perfile" uploads one
\* request per file, "batch" one request per selection
PanelStart(version) ==
    [version |-> version, mounted |-> FALSE, isLoggedIn |-> FALSE,
     password |-> "", admin_pass |-> "", loggedOut |-> FALSE,
     fetching |-> FALSE, uploading |-> FALSE, pc |-> "idle", files |-> 0,
     i |-> 0, successCount |-> 0, failCount |-> 0]
\* useState of the status indicator
IndicatorStart ==
    [status |-> [supabaseConnected |-> FALSE, errorDetail |-> NullDetail,
                 version |-> "", loading |-> TRUE, setupGuide |-> "null"],
     polls |-> 0, inFlight |-> 0, outcome |-> "none",
     good |-> [supabaseConnected |-> FALSE, version |-> "", setupGuide |-> "null"]]

\* before the first request
NoRequest == [op |-> "none", auth |-> TRUE, id |-> 0, name |-> 0,
              files |-> NoFiles, repeat |-> FALSE, backend |-> TRUE,
              status |-> 0, error |-> "", photos |-> NoPhotos,
              clients |-> << >>, logo |-> NullLogo]
\* the stores of a server v that has just started, and its last answer
Fresh(v) == [variant |-> v, configured |-> TRUE, clients |-> << >>,
             photos |-> [i \in Ids |-> {}], dirs |-> {}, clock |-> 0,
             nextUuid |-> 0, uploaded |-> [i \in Ids |-> {}], tainted |-> {},
             last |-> NoRequest]

InitStores ==
    /\ variant \in Variants
    /\ configured \in (IF variant = "supabase" THEN BOOLEAN ELSE {TRUE})
    /\ clients = << >>
    /\ photos = [i \in Ids |-> {}]
    /\ dirs = {}
    /\ clock = 0
    /\ nextUuid = 0
    /\ last = NoRequest
    /\ work = 0
    /\ uploaded = [i \in Ids |-> {}]
    /\ tainted = {}
    /\ settings = NullLogo
    /\ logos = {}
    /\ returned = NullLogo
    /\ flight = [pc |-> "idle", id |-> 0, had |-> FALSE, files |-> {},
                 backend |-> TRUE]
    /\ pair = [stage |-> "A", mark |-> 0, resp |-> NoRequest,
               other |-> Fresh("vercel")]
    /\ race = [arrived |-> 0, from3 |-> 0]
    /\ health = NoHealth

\* the environment is the plain one: URL and service-role key set, or
\* nothing; a configured project has its public bucket
Init ==
    /\ InitStores
    /\ env = PlainEnv(configured)
    /\ bucket = IF variant = "supabase" /\ configured THEN "public" ELSE "none"
    /\ panel = PanelStart("perfile")
    /\ indicator = IndicatorStart

(* --------------------------- access gate ------------------------------- *)
\* auth: the request carries "Bearer <configured password>"
SupabaseAuthMiddleware(auth) == auth
VercelAuthMiddleware(auth) == auth
\* "Password check disabled for preview": next() is always called
LocalAuthMiddleware(auth) == TRUE
authMiddleware(auth) ==
    CASE variant = "supabase" -> SupabaseAuthMiddleware(auth)
      [] variant = "vercel" -> VercelAuthMiddleware(auth)
      [] variant = "local" -> LocalAuthMiddleware(auth)

Cost(op) ==
    IF op \in {"CreateTenant", "ListGallery", "ListTenants", "GetSettings"}
    THEN 1 ELSE 2
Budget(op) == work + Cost(op) <= MaxWork

\* the answer of a handler that runs in one step
Answer(req, backend, status, error, list) ==
    /\ last' = Response(req, backend, status, error, list)
    /\ work' = work + Cost(req.op)
    /\ UNCHANGED <<flight, pair, race>>
\* the answer of a route that does not touch the branding
Reply(req, backend, status, error, list) ==
    /\ Answer(req, backend, status, error, list)
    /\ UNCHANGED <<brandingVars, sideVars>>

\* a request that is answered without touching the stores
Rejected(req, backend, status, error) ==
    /\ Reply(req, backend, status, error, NoPhotos)
    /\ UNCHANGED <<variant, configured, clients, photos, dirs, clock,
                   nextUuid, uploaded>>

(* ------------------------------ history -------------------------------- *)
\* uploaded[id]: names stored by the UploadAssets requests for id that were
\* answered with success, minus those a successful DeleteAsset named.
\* tainted: ids named by a DeleteTenant, or by an UploadAssets or DeleteAsset
\* request that was not answered with success.
Taint(id) == tainted' = tainted \cup ({id} \cap Ids)

(* --------------------------- CreateTenant ------------------------------ *)
\* POST /api/admin/clients, object storage: no count check; the insert
\* fails when the backend fails or the generated id is already a row's key
SupabaseCreateClient(auth, clientId, insertOk) ==
    LET req == Request("CreateTenant", auth, clientId, 0, NoFiles) IN
    /\ variant = "supabase"
    /\ Budget("CreateTenant")
    /\ UNCHANGED tainted
    /\ IF ~authMiddleware(auth)
       THEN Rejected(req, TRUE, 401, "Unauthorized")
       ELSE IF ~configured
       THEN Rejected(req, TRUE, 503, "Supabase nao configurado")
       ELSE IF ~insertOk \/ clientId \in ClientIds
       THEN Rejected(req, FALSE, 500, "insert failed")
       ELSE /\ clients' = Append(clients, [id |-> clientId, createdAt |-> clock])
            /\ clock' = clock + 1
            /\ Reply(req, TRUE, 200, "", NoPhotos)
            /\ UNCHANGED <<variant, configured, photos, dirs, nextUuid, uploaded>>

\* clients.length >= 4
NeverAtLimit(n) == FALSE
AtLimit(n) == n >= MaxClients

\* POST /api/admin/clients, filesystem
FsCreateClient(auth, clientId) ==
    LET req == Request("CreateTenant", auth, clientId, 0, NoFiles) IN
    /\ variant \in {"local", "vercel"}
    /\ Budget("CreateTenant")
    /\ UNCHANGED tainted
    /\ IF ~authMiddleware(auth)
       THEN Rejected(req, TRUE, 401, "Unauthorized")
       ELSE IF AtLimit(Len(clients))
       THEN Rejected(req, TRUE, 400, "Limite de 4 clientes atingido")
       ELSE /\ clients' = Append(clients, [id |-> clientId, createdAt |-> clock])
            /\ clock' = clock + 1
            /\ dirs' = dirs \cup {clientId}
            /\ Reply(req, TRUE, 200, "", NoPhotos)
            /\ UNCHANGED <<variant, configured, photos, nextUuid, uploaded>>

(* --------------------------- DeleteTenant ------------------------------ *)
\* files.map(f => `${id}/${f.name}`) handed to remove(): what leaves the
\* bucket when the tenant is deleted
SupabaseRemovedOne(files, removeOk) ==
    IF files # {} /\ removeOk THEN {CHOOSE f \in files : TRUE} ELSE {}
SupabaseRemoved(files, removeOk) == IF files # {} /\ removeOk THEN files ELSE {}

\* DELETE /api/admin/clients/:id, object storage: list, remove, delete row.
\* The results of list and remove are not inspected for errors.
SupabaseDeleteClient(auth, id, listOk, removeOk, deleteOk) ==
    LET req == Request("DeleteTenant", auth, id, 0, NoFiles) IN
    /\ variant = "supabase"
    /\ Budget("DeleteTenant")
    /\ Taint(id)
    /\ IF ~authMiddleware(auth)
       THEN Rejected(req, TRUE, 401, "Unauthorized")
       ELSE IF ~configured
       THEN Rejected(req, TRUE, 503, "Supabase nao configurado")
       ELSE LET files == IF listOk THEN photos[id] ELSE {}
                backend == listOk /\ (files = {} \/ removeOk) /\ deleteOk
            IN /\ photos' = [photos EXCEPT ![id] = @ \ SupabaseRemoved(files, removeOk)]
               /\ IF ~deleteOk
                  THEN /\ clients' = clients
                       /\ Reply(req, backend, 500, "delete failed", NoPhotos)
                  ELSE /\ clients' = SelectSeq(clients, LAMBDA c : c.id # id)
                       /\ Reply(req, backend, 200, "", NoPhotos)
               /\ UNCHANGED <<variant, configured, dirs, clock, nextUuid,
                              uploaded>>

\* DELETE /api/admin/clients/:id, filesystem: rewrite clients.json, then
\* remove the directory
FsDeleteClient(auth, id) ==
    LET req == Request("DeleteTenant", auth, id, 0, NoFiles) IN
    /\ variant \in {"local", "vercel"}
    /\ Budget("DeleteTenant")
    /\ Taint(id)
    /\ IF ~authMiddleware(auth)
       THEN Rejected(req, TRUE, 401, "Unauthorized")
       ELSE /\ clients' = SelectSeq(clients, LAMBDA c : c.id # id)
            /\ photos' = [photos EXCEPT ![id] = {}]
            /\ dirs' = dirs \ {id}
            /\ Reply(req, TRUE, 200, "", NoPhotos)
            /\ UNCHANGED <<variant, configured, clock, nextUuid, uploaded>>

(* --------------------------- UploadAssets ------------------------------ *)
\* multer: index of the first file that makes the upload middleware fail,
\* 0 when every file is accepted.  upload.array("photos", 30) refuses the
\* 31st file; the filesystem servers also filter on the content type; the
\* size limit is 5MB (memory storage) or 10MB (disk storage).
CountError(files, i) == i > MaxFiles
TypeError(files, i) == variant # "supabase" /\ files[i].mimetype \notin allowedTypes
SizeError(files, i) ==
    files[i].size > (IF variant = "supabase" THEN SupabaseFileSizeMB ELSE FsFileSizeMB)
FirstBad(files) ==
    MinOf({i \in 1..Len(files) :
              CountError(files, i) \/ TypeError(files, i) \/ SizeError(files, i)})
MulterError(files, i) ==
    IF CountError(files, i) THEN "Unexpected field"
    ELSE IF TypeError(files, i) THEN "Invalid file type"
    ELSE "File too large"

\* the objects written for files 1..n of a batch, named by fresh uuids
Stored(files, n) ==
    {[name |-> nextUuid + i, mimetype |-> files[i].mimetype] : i \in 1..n}
Names(S) == {f.name : f \in S}

\* the file of a batch whose backend call fails (0: none)
FailPoints(files) == 0..Min(Len(files), SmallBatch)

UploadHistory(client, status, new) ==
    IF status = 200
    THEN /\ uploaded' = [uploaded EXCEPT ![client] = @ \cup Names(new)]
         /\ UNCHANGED tainted
    ELSE /\ Taint(client)
         /\ UNCHANGED uploaded

\* POST /api/admin/upload/:client, object storage
SupabaseUpload(auth, client, files, failAt) ==
    LET req == Request("UploadAssets", auth, client, 0, files) IN
    /\ variant = "supabase"
    /\ Budget("UploadAssets")
    /\ IF ~authMiddleware(auth)
       THEN Rejected(req, TRUE, 401, "Unauthorized")
            /\ UploadHistory(client, 401, {})
       ELSE IF FirstBad(files) # 0
       THEN Rejected(req, TRUE, 500, MulterError(files, FirstBad(files)))
            /\ UploadHistory(client, 500, {})
       ELSE IF Len(files) = 0
       THEN Rejected(req, TRUE, 400, "Nenhuma foto enviada")
            /\ UploadHistory(client, 400, {})
       ELSE IF ~configured
       THEN Rejected(req, TRUE, 503, "Supabase nao configurado")
            /\ UploadHistory(client, 503, {})
       ELSE LET n == IF failAt = 0 THEN Len(files) ELSE failAt - 1
                new == Stored(files, n)
                status == IF failAt = 0 THEN 200 ELSE 500
            IN /\ photos' = [photos EXCEPT ![client] = @ \cup new]
               /\ nextUuid' = nextUuid + n
               /\ Reply(req, failAt = 0, status,
                        IF failAt = 0 THEN "" ELSE "upload failed", NoPhotos)
               /\ UploadHistory(client, status, new)
               /\ UNCHANGED <<variant, configured, clients, dirs, clock>>

\* POST /api/admin/upload/:client, filesystem: multer's disk storage has
\* written the files when the handler counts the directory
FsUpload(auth, client, files) ==
    LET req == Request("UploadAssets", auth, client, 0, files) IN
    /\ variant \in {"local", "vercel"}
    /\ Budget("UploadAssets")
    /\ IF ~authMiddleware(auth)
       THEN Rejected(req, TRUE, 401, "Unauthorized")
            /\ UploadHistory(client, 401, {})
       ELSE LET bad == FirstBad(files)
                \* destination() made the directory for a file that got past
                \* the filter
                made == \/ bad = 0 /\ Len(files) > 0
                        \/ bad > 1
                        \/ bad = 1 /\ ~CountError(files, 1) /\ ~TypeError(files, 1)
                dirsNow == IF made THEN dirs \cup {client} ELSE dirs
            IN IF bad # 0
               THEN \* multer removes what this request wrote and fails it
                    /\ dirs' = dirsNow
                    /\ Reply(req, TRUE, 500, MulterError(files, bad), NoPhotos)
                    /\ UploadHistory(client, 500, {})
                    /\ UNCHANGED <<variant, configured, clients, photos, clock,
                                   nextUuid>>
               ELSE IF client \notin dirsNow
               THEN \* readdirSync throws on the missing directory
                    /\ Rejected(req, TRUE, 500, "ENOENT")
                    /\ UploadHistory(client, 500, {})
               ELSE LET new == Stored(files, Len(files))
                        now == photos[client] \cup new
                        status == IF Cardinality(now) > MaxPhotos THEN 400 ELSE 200
                    IN /\ photos' = [photos EXCEPT ![client] = now]
                       /\ dirs' = dirsNow
                       /\ nextUuid' = nextUuid + Len(files)
                       /\ Reply(req, TRUE, status,
                                IF status = 400 THEN "Limite de 30 fotos atingido" ELSE "",
                                NoPhotos)
                       /\ UploadHistory(client, status, new)
                       /\ UNCHANGED <<variant, configured, clients, clock>>

(* ---------------------------- DeleteAsset ------------------------------ *)
\* file names a DeleteAsset request carries: the oldest stored one, the one
\* the previous DeleteAsset named, and 0, which is never stored (stored
\* names start at 1)
FileNames(client) ==
    {MinOf(Names(photos[client])), 0}
    \cup (IF last.op = "DeleteAsset" /\ last.id = client THEN {last.name} ELSE {})

DeleteHistory(client, filename, status) ==
    IF status = 200
    THEN /\ uploaded' = [uploaded EXCEPT ![client] = @ \ {filename}]
         /\ UNCHANGED tainted
    ELSE /\ Taint(client)
         /\ UNCHANGED uploaded

\* DELETE /api/admin/photos/:client/:filename, object storage: remove() of a
\* key that is not stored is not an error
SupabaseDeletePhoto(auth, client, filename, removeOk) ==
    LET req == Request("DeleteAsset", auth, client, filename, NoFiles) IN
    /\ variant = "supabase"
    /\ Budget("DeleteAsset")
    /\ IF ~authMiddleware(auth)
       THEN Rejected(req, TRUE, 401, "Unauthorized")
            /\ DeleteHistory(client, filename, 401)
       ELSE IF ~configured
       THEN Rejected(req, TRUE, 503, "Supabase nao configurado")
            /\ DeleteHistory(client, filename, 503)
       ELSE IF ~removeOk
       THEN Rejected(req, FALSE, 500, "remove failed")
            /\ DeleteHistory(client, filename, 500)
       ELSE /\ photos' = [photos EXCEPT ![client] = {f \in @ : f.name # filename}]
            /\ Reply(req, TRUE, 200, "", NoPhotos)
            /\ DeleteHistory(client, filename, 200)
            /\ UNCHANGED <<variant, configured, clients, dirs, clock, nextUuid>>

\* DELETE /api/admin/photos/:client/:filename, filesystem.  The route
\* parameters are percent-decoded, so :filename may hold path separators;
\* dir is the directory of path.join(UPLOADS, client, filename) and base its
\* last component: client and filename for a plain file name, another
\* client's directory for a :filename of the form ../dir/base.
FsDeletePhotoAt(auth, client, filename, dir, base) ==
    LET req == Request("DeleteAsset", auth, client, filename, NoFiles) IN
    /\ variant \in {"local", "vercel"}
    /\ Budget("DeleteAsset")
    /\ IF ~authMiddleware(auth)
       THEN Rejected(req, TRUE, 401, "Unauthorized")
            /\ DeleteHistory(client, filename, 401)
       ELSE IF base \in Names(photos[dir])
       THEN /\ photos' = [photos EXCEPT ![dir] = {f \in @ : f.name # base}]
            /\ Reply(req, TRUE, 200, "", NoPhotos)
            /\ DeleteHistory(dir, base, 200)
            /\ UNCHANGED <<variant, configured, clients, dirs, clock, nextUuid>>
       ELSE Rejected(req, TRUE, 404, "File not found")
            /\ DeleteHistory(client, filename, 404)

\* the same for a plain file name
FsDeletePhoto(auth, client, filename) ==
    FsDeletePhotoAt(auth, client, filename, client, filename)

(* ---------------------------- ListGallery ------------------------------ *)
RECURSIVE SortedSeq(_)
SortedSeq(S) == IF S = {} THEN << >>
                ELSE LET m == MinOf(S) IN <<m>> \o SortedSeq(S \ {m})

\* getPublicUrl(`${id}/${name}`) of bucket 'photos'
SupabasePublicUrl(id, name) == <<"/storage/v1/object/public/photos", id, name>>
\* `/api/photos/${id}/${filename}`
FsPhotoUrl(id, name) == <<"/api/photos", id, name>>
PhotoUrl(id, name) ==
    IF variant = "supabase" THEN SupabasePublicUrl(id, name) ELSE FsPhotoUrl(id, name)

\* files.map(f => ({url, name})), in the order the store lists them (by name)
PhotoListSkipFirst(id, files) ==
    LET names == SortedSeq(Names(files))
    IN [i \in 1..(Len(names) - 1) |->
           [url |-> PhotoUrl(id, names[i + 1]), name |-> names[i + 1]]]
PhotoList(id, files) ==
    LET names == SortedSeq(Names(files))
    IN [i \in 1..Len(names) |-> [url |-> PhotoUrl(id, names[i]), name |-> names[i]]]

\* GET /api/client/:id, object storage; a failed list leaves files undefined
SupabaseGetClient(id, selectOk, listOk) ==
    LET req == Request("ListGallery", TRUE, id, 0, NoFiles) IN
    /\ variant = "supabase"
    /\ Budget("ListGallery")
    /\ UNCHANGED tainted
    /\ IF ~configured
       THEN Rejected(req, TRUE, 503, "Supabase nao configurado")
       ELSE IF ~selectOk \/ id \notin ClientIds
       THEN Rejected(req, selectOk, 404, "Portfolio nao encontrado")
       ELSE /\ Reply(req, listOk, 200, "",
                     PhotoList(id, IF listOk THEN photos[id] ELSE {}))
            /\ UNCHANGED <<variant, configured, clients, photos, dirs, clock,
                           nextUuid, uploaded>>

\* GET /api/client/:id, filesystem
FsGetClient(id) ==
    LET req == Request("ListGallery", TRUE, id, 0, NoFiles) IN
    /\ variant \in {"local", "vercel"}
    /\ Budget("ListGallery")
    /\ UNCHANGED tainted
    /\ IF id \notin ClientIds
       THEN Rejected(req, TRUE, 404, "Cliente nao encontrado")
       ELSE /\ Reply(req, TRUE, 200, "",
                     PhotoList(id, IF id \in dirs THEN photos[id] ELSE {}))
            /\ UNCHANGED <<variant, configured, clients, photos, dirs, clock,
                           nextUuid, uploaded>>

(* ---------------------------- ListTenants ------------------------------ *)
\* .order('createdAt', { ascending: false })
RECURSIVE OrderByCreatedAtDesc(_)
OrderByCreatedAtDesc(S) ==
    IF S = {} THEN << >>
    ELSE LET c == CHOOSE x \in S : \A y \in S : y.createdAt <= x.createdAt
         IN <<c>> \o OrderByCreatedAtDesc(S \ {c})

\* getClients, object storage: [] when unconfigured and when the query fails
SupabaseGetClients(selectOk) ==
    IF ~configured \/ ~selectOk THEN << >> ELSE OrderByCreatedAtDesc(Range(clients))
\* getClients, filesystem: clients.json as it was written
FsGetClients == clients

\* GET /api/admin/clients, object storage
SupabaseListClients(auth, selectOk) ==
    LET req == Request("ListTenants", auth, 0, 0, NoFiles) IN
    /\ variant = "supabase"
    /\ Budget("ListTenants")
    /\ UNCHANGED tainted
    /\ IF ~authMiddleware(auth)
       THEN Rejected(req, TRUE, 401, "Unauthorized")
       ELSE /\ Reply(req, ~configured \/ selectOk, 200, "", SupabaseGetClients(selectOk))
            /\ UNCHANGED <<variant, configured, clients, photos, dirs, clock,
                           nextUuid, uploaded>>

\* GET /api/admin/clients, filesystem
FsListClients(auth) ==
    LET req == Request("ListTenants", auth, 0, 0, NoFiles) IN
    /\ variant \in {"local", "vercel"}
    /\ Budget("ListTenants")
    /\ UNCHANGED tainted
    /\ IF ~authMiddleware(auth)
       THEN Rejected(req, TRUE, 401, "Unauthorized")
       ELSE /\ Reply(req, TRUE, 200, "", FsGetClients)
            /\ UNCHANGED <<variant, configured, clients, photos, dirs, clock,
                           nextUuid, uploaded>>

(* ------------------------------- Next ---------------------------------- *)
\* a request without the operator secret: one per operation
Targets(auth) == IF auth THEN Candidates ELSE {1}
Bodies(auth) == IF auth THEN Batches ELSE {Uniform(1)}
\* backend outcomes of a request that makes several calls: at most one fails
Outcomes3 == {<<TRUE, TRUE, TRUE>>, <<FALSE, TRUE, TRUE>>, <<TRUE, FALSE, TRUE>>,
              <<TRUE, TRUE, FALSE>>}
Outcomes2 == {<<TRUE, TRUE>>, <<FALSE, TRUE>>, <<TRUE, FALSE>>}

Next ==
    \/ \E auth \in BOOLEAN : \E id \in Targets(auth), ok \in BOOLEAN :
          SupabaseCreateClient(auth, id, ok)
    \/ \E auth \in BOOLEAN : \E id \in Targets(auth) : FsCreateClient(auth, id)
    \/ \E auth \in BOOLEAN : \E id \in Targets(auth), o \in Outcomes3 :
          SupabaseDeleteClient(auth, id, o[1], o[2], o[3])
    \/ \E auth \in BOOLEAN : \E id \in Targets(auth) : FsDeleteClient(auth, id)
    \/ \E auth \in BOOLEAN : \E id \in Targets(auth), files \in Bodies(auth) :
          \E failAt \in FailPoints(files) : SupabaseUpload(auth, id, files, failAt)
    \/ \E auth \in BOOLEAN : \E id \in Targets(auth), files \in Bodies(auth) :
          FsUpload(auth, id, files)
    \/ \E auth \in BOOLEAN : \E id \in Targets(auth), ok \in BOOLEAN :
          \E name \in FileNames(id) : SupabaseDeletePhoto(auth, id, name, ok)
    \/ \E auth \in BOOLEAN : \E id \in Targets(auth) :
          \E name \in FileNames(id) : FsDeletePhoto(auth, id, name)
    \/ \E id \in Candidates, o \in Outcomes2 : SupabaseGetClient(id, o[1], o[2])
    \/ \E id \in Candidates : FsGetClient(id)
    \/ \E auth \in BOOLEAN, ok \in BOOLEAN : SupabaseListClients(auth, ok)
    \/ \E auth \in BOOLEAN : FsListClients(auth)

Spec == Init /\ [][Next]_vars

(* ------------------------------ branding ------------------------------- *)
\* path.extname(req.file.originalname) of the logos a client sends
LogoExts == {".png", ".jpg"}
\* an uploaded logo: extension of its name, size in MB, content
LogoFiles == {[ext |-> e, size |-> 1, data |-> d] : e \in LogoExts, d \in 1..2}
             \cup {[ext |-> ".png", size |-> SupabaseFileSizeMB + 1, data |-> 1]}
\* the multipart bodies of upload.single("logo"): no file or one file
LogoBodies == {NoFiles} \cup {<<f>> : f \in LogoFiles}

\* `branding/logo${ext}`
LogoName(ext) == <<"logo", ext>>
\* storage.upload(filename, buffer, { upsert: true })
NotUpserted(objects, name, data) == objects
Upserted(objects, name, data) ==
    {o \in objects : o.name # name} \cup {[name |-> name, data |-> data]}

\* getSettings: { logo: null } when unconfigured, when the query fails and
\* when there is no row
getSettingsNull(selectOk) == NullLogo
getSettings(selectOk) ==
    IF ~configured \/ ~selectOk THEN NullLogo ELSE settings

\* GET /api/settings
GetSettings(selectOk) ==
    LET req == Request("GetSettings", TRUE, 0, 0, NoFiles) IN
    /\ variant = "supabase"
    /\ Budget("GetSettings")
    /\ Answer(req, ~configured \/ selectOk, 200, "", getSettings(selectOk))
    /\ UNCHANGED <<storeVars, brandingVars, sideVars>>

\* multer's limits.fileSize for upload.single("logo")
LogoNeverTooLarge(body) == FALSE
LogoTooLarge(body) == Len(body) = 1 /\ body[1].size > SupabaseFileSizeMB

\* POST /api/admin/settings/logo
UpdateBranding(auth, body, uploadOk, upsertOk) ==
    LET req == Request("UpdateBranding", auth, 0, 0, body) IN
    /\ variant = "supabase"
    /\ Budget("UpdateBranding")
    /\ UNCHANGED tainted
    /\ IF ~authMiddleware(auth)
       THEN Rejected(req, TRUE, 401, "Unauthorized")
       ELSE IF LogoTooLarge(body)
       THEN Rejected(req, TRUE, 500, "File too large")
       ELSE IF Len(body) = 0
       THEN Rejected(req, TRUE, 400, "No file uploaded")
       ELSE IF ~configured
       THEN Rejected(req, TRUE, 503, "Supabase nao configurado")
       ELSE IF ~uploadOk
       THEN Rejected(req, FALSE, 500, "upload failed")
       ELSE LET filename == LogoName(body[1].ext)
                publicUrl == SupabasePublicUrl("branding", filename)
            IN /\ logos' = Upserted(logos, filename, body[1].data)
               /\ IF ~upsertOk
                  THEN /\ Answer(req, FALSE, 500, "upsert failed", NullLogo)
                       /\ UNCHANGED <<settings, returned>>
                  ELSE /\ settings' = publicUrl
                       /\ returned' = publicUrl
                       /\ Answer(req, TRUE, 200, "", publicUrl)
               /\ UNCHANGED <<variant, configured, clients, photos, dirs, clock,
                              nextUuid, uploaded, sideVars>>

InitBranding == Init /\ variant = "supabase"
NextBranding ==
    \/ \E ok \in BOOLEAN : GetSettings(ok)
    \/ \E auth \in BOOLEAN, body \in LogoBodies, oc \in Outcomes2 :
          /\ auth \/ body = NoFiles
          /\ UpdateBranding(auth, body, oc[1], oc[2])
SpecBranding == InitBranding /\ [][NextBranding]_vars

(* ---------------------- DeleteTenant, step by step --------------------- *)
\* flight.pc: where the handler of DELETE /api/admin/clients/:id stands
\* ("idle": no handler runs; "crashed": the process stopped between two
\* steps and was started again); flight.id: its :id; flight.had: a record
\* of :id existed when it started; flight.files: what storage.list answered.
Idle == {"idle", "crashed"}
Started(pc, id, files, backend) ==
    [pc |-> pc, id |-> id, had |-> id \in ClientIds, files |-> files,
     backend |-> backend]
Finished == [flight EXCEPT !.pc = "idle"]
DeleteRequest == Request("DeleteTenant", TRUE, flight.id, 0, NoFiles)

\* filesystem, first step: clients.filter(...), saveClients(clients)
FsDeleteSave(id) ==
    /\ variant \in {"local", "vercel"}
    /\ flight.pc \in Idle
    /\ Budget("DeleteTenant")
    /\ clients' = SelectSeq(clients, LAMBDA c : c.id # id)
    /\ flight' = Started("saved", id, {}, TRUE)
    /\ work' = work + Cost("DeleteTenant")
    /\ Taint(id)
    /\ UNCHANGED <<variant, configured, photos, dirs, clock, nextUuid, last,
                   uploaded, brandingVars, sideVars, pair, race>>

\* filesystem, second step: fs.rmSync(clientDir), res.json({ success: true })
FsDeleteRmDir ==
    /\ flight.pc = "saved"
    /\ photos' = [photos EXCEPT ![flight.id] = {}]
    /\ dirs' = dirs \ {flight.id}
    /\ last' = Response(DeleteRequest, TRUE, 200, "", NoPhotos)
    /\ flight' = Finished
    /\ UNCHANGED <<variant, configured, clients, clock, nextUuid, work,
                   uploaded, tainted, brandingVars, sideVars, pair, race>>

\* object storage, first step: storage.list(id)
SupabaseDeleteList(id, listOk) ==
    /\ variant = "supabase" /\ configured
    /\ flight.pc \in Idle
    /\ Budget("DeleteTenant")
    /\ flight' = Started("listed", id, IF listOk THEN photos[id] ELSE {}, listOk)
    /\ work' = work + Cost("DeleteTenant")
    /\ Taint(id)
    /\ UNCHANGED <<variant, configured, clients, photos, dirs, clock, nextUuid,
                   last, uploaded, brandingVars, sideVars, pair, race>>

\* object storage, second step: storage.remove(...) when the list is not empty
SupabaseDeleteRemove(removeOk) ==
    /\ flight.pc = "listed"
    /\ photos' = [photos EXCEPT ![flight.id] =
                     @ \ SupabaseRemoved(flight.files, removeOk)]
    /\ flight' = [flight EXCEPT !.pc = "removed",
                                !.backend = @ /\ (flight.files = {} \/ removeOk)]
    /\ UNCHANGED <<variant, configured, clients, dirs, clock, nextUuid, last,
                   work, uploaded, tainted, brandingVars, sideVars, pair, race>>

\* object storage, third step: delete the row and answer
SupabaseDeleteRow(deleteOk) ==
    /\ flight.pc = "removed"
    /\ IF ~deleteOk
       THEN /\ clients' = clients
            /\ last' = Response(DeleteRequest, FALSE, 500, "delete failed", NoPhotos)
       ELSE /\ clients' = SelectSeq(clients, LAMBDA c : c.id # flight.id)
            /\ last' = Response(DeleteRequest, flight.backend, 200, "", NoPhotos)
    /\ flight' = Finished
    /\ UNCHANGED <<variant, configured, photos, dirs, clock, nextUuid, work,
                   uploaded, tainted, brandingVars, sideVars, pair, race>>

\* the process stops between two steps of the handler and is started again:
\* the stores keep what the steps before wrote
Crash ==
    /\ flight.pc \notin Idle
    /\ flight' = [flight EXCEPT !.pc = "crashed"]
    /\ UNCHANGED <<storeVars, last, work, brandingVars, sideVars, pair, race>>

\* the requests that set the scene run in one step, with the secret
NextSteps ==
    \/ \E id \in Candidates :
          flight.pc \in Idle /\ SupabaseCreateClient(TRUE, id, TRUE)
    \/ \E id \in Candidates : flight.pc \in Idle /\ FsCreateClient(TRUE, id)
    \/ \E id \in Candidates, k \in 1..SmallBatch :
          flight.pc \in Idle /\ SupabaseUpload(TRUE, id, Uniform(k), 0)
    \/ \E id \in Candidates, k \in 1..SmallBatch :
          flight.pc \in Idle /\ FsUpload(TRUE, id, Uniform(k))
    \/ \E id \in Candidates : FsDeleteSave(id)
    \/ FsDeleteRmDir
    \/ \E id \in Candidates, ok \in BOOLEAN : SupabaseDeleteList(id, ok)
    \/ \E ok \in BOOLEAN : SupabaseDeleteRemove(ok)
    \/ \E ok \in BOOLEAN : SupabaseDeleteRow(ok)
    \/ Crash
SpecSteps == Init /\ [][NextSteps]_vars

(* --------------------------- side by side ------------------------------ *)
\* The object-storage server and the /tmp filesystem server get the same
\* requests, one request at a time: the variables hold the stores of the
\* server whose turn it is, pair.other those of the other server.
\* pair.stage: "A" the object-storage server's turn, "B" the filesystem
\* server's; pair.mark: work done when the turn began; pair.resp: the
\* request and answer of the object-storage server in this round.
PairIds == 1..2
PairNames == 0..2
Stores == [variant |-> variant, configured |-> configured, clients |-> clients,
           photos |-> photos, dirs |-> dirs, clock |-> clock,
           nextUuid |-> nextUuid, uploaded |-> uploaded, tainted |-> tainted,
           last |-> last]
Answered == work # pair.mark
OtherClientIds == {c.id : c \in Range(pair.other.clients)}

\* hand the turn to the other server
Swap ==
    /\ Answered
    /\ variant' = pair.other.variant
    /\ configured' = pair.other.configured
    /\ clients' = pair.other.clients
    /\ photos' = pair.other.photos
    /\ dirs' = pair.other.dirs
    /\ clock' = pair.other.clock
    /\ nextUuid' = pair.other.nextUuid
    /\ uploaded' = pair.other.uploaded
    /\ tainted' = pair.other.tainted
    /\ last' = pair.other.last
    /\ IF pair.stage = "A"
       THEN /\ pair' = [stage |-> "B", mark |-> pair.mark, resp |-> last,
                        other |-> Stores]
            /\ work' = pair.mark
       ELSE /\ pair' = [stage |-> "A", mark |-> work, resp |-> pair.resp,
                        other |-> Stores]
            /\ work' = work
    /\ UNCHANGED <<brandingVars, sideVars, flight, race>>

\* a request to the object-storage server, whose backend calls succeed and
\* whose generated id is not in use
RunA ==
    /\ pair.stage = "A" /\ ~Answered
    /\ \/ \E id \in PairIds \ (ClientIds \cup OtherClientIds) :
             SupabaseCreateClient(TRUE, id, TRUE)
       \/ \E id \in PairIds : SupabaseDeleteClient(TRUE, id, TRUE, TRUE, TRUE)
       \/ \E id \in PairIds, files \in Batches : SupabaseUpload(TRUE, id, files, 0)
       \/ \E id \in PairIds, name \in PairNames :
             SupabaseDeletePhoto(TRUE, id, name, TRUE)
       \/ \E id \in PairIds : SupabaseGetClient(id, TRUE, TRUE)

\* the same request to the filesystem server
RunB ==
    LET r == pair.resp IN
    /\ pair.stage = "B" /\ ~Answered
    /\ \/ r.op = "CreateTenant" /\ FsCreateClient(TRUE, r.id)
       \/ r.op = "DeleteTenant" /\ FsDeleteClient(TRUE, r.id)
       \/ r.op = "UploadAssets" /\ FsUpload(TRUE, r.id, r.files)
       \/ r.op = "DeleteAsset" /\ FsDeletePhoto(TRUE, r.id, r.name)
       \/ r.op = "ListGallery" /\ FsGetClient(r.id)

InitPair == Init /\ variant = "supabase" /\ configured
NextPair == RunA \/ RunB \/ Swap
SpecPair == InitPair /\ [][NextPair]_vars

(* ----------------------- overlapping CreateTenant ----------------------- *)
\* Requests arrive while earlier ones wait for their handler.  A handler
\* runs when the event loop reaches it: the filesystem handler is synchronous
\* from its count check to saveClients, the object-storage handler makes one
\* insert call.  race.arrived: CreateTenant requests received; every one
\* handled counts 1 in work, so race.arrived - work of them wait.
\* race.from3: the number of the second of two requests that waited together
\* while exactly 3 tenants were stored (0: that has not happened).
Waiting == race.arrived - work

Arrive ==
    /\ Waiting < MaxWaiting
    /\ race.arrived < MaxWork
    /\ race' = [arrived |-> race.arrived + 1,
                from3 |-> IF race.from3 = 0 /\ Waiting + 1 = 2
                             /\ Len(clients) = MaxClients - 1
                          THEN race.arrived + 1 ELSE race.from3]
    /\ UNCHANGED <<storeVars, last, work, brandingVars, sideVars, flight, pair>>

\* the handler of a waiting request runs; the generator returns an unused id
HandleFs ==
    /\ Waiting > 0
    /\ \E id \in Candidates \ ClientIds : FsCreateClient(TRUE, id)
HandleSupabase ==
    /\ Waiting > 0
    /\ \E id \in Candidates \ ClientIds : SupabaseCreateClient(TRUE, id, TRUE)

NextRace == Arrive \/ HandleFs \/ HandleSupabase
SpecRace == Init /\ [][NextRace]_vars

\* both requests that overlapped at 3 tenants have been answered
RaceDone == race.from3 # 0 /\ work = race.from3

(* --------------------------- tenant isolation --------------------------- *)
\* :filename = ../dir/base is written as the number -base; requests name it
\* for the oldest file of another client's directory
Stocked == {i \in Ids : photos[i] # {}}
NextIsolation ==
    \/ \E id \in Candidates : SupabaseCreateClient(TRUE, id, TRUE)
    \/ \E id \in Candidates : FsCreateClient(TRUE, id)
    \/ \E id \in Candidates, k \in 1..SmallBatch : SupabaseUpload(TRUE, id, Uniform(k), 0)
    \/ \E id \in Candidates, k \in 1..SmallBatch : FsUpload(TRUE, id, Uniform(k))
    \/ \E id \in Candidates : SupabaseDeleteClient(TRUE, id, TRUE, TRUE, TRUE)
    \/ \E id \in Candidates : FsDeleteClient(TRUE, id)
    \/ \E id \in Candidates : \E name \in FileNames(id) :
          SupabaseDeletePhoto(TRUE, id, name, TRUE)
    \/ \E id \in Candidates : \E name \in FileNames(id) :
          FsDeletePhoto(TRUE, id, name)
    \/ \E id \in Candidates : \E dir \in Stocked \ {id} :
          LET base == MinOf(Names(photos[dir]))
          IN FsDeletePhotoAt(TRUE, id, 0 - base, dir, base)
SpecIsolation == Init /\ [][NextIsolation]_vars

(* ------------------------ health and storage setup --------------------- *)
\* outcome of a backend call: it answers, answers with an error, or throws
CallOutcomes == {"ok", "error", "throws"}

\* GET /api/health: the pair <<supabaseConnected, errorDetail>>
HealthAlwaysOk(e, db, storage, b) == <<TRUE, NullDetail>>
HealthOf(e, db, storage, b) ==
    IF e.url = "unset" /\ KeyOf(e) = "unset" THEN <<FALSE, "URL e Chave nao encontradas">>
    ELSE IF e.url = "unset" THEN <<FALSE, "SUPABASE_URL nao encontrada">>
    ELSE IF KeyOf(e) = "unset" THEN <<FALSE, "Chave nao encontrada">>
    ELSE IF ~getSupabase(e) THEN <<FALSE, "Falha ao inicializar cliente Supabase">>
    ELSE IF db = "throws" THEN <<FALSE, "e.message">>
    ELSE IF db = "error" THEN <<FALSE, "Erro na tabela">>
    ELSE IF storage = "throws" THEN <<FALSE, "e.message">>
    ELSE IF storage = "error" THEN <<FALSE, "Erro no Storage">>
    ELSE IF b = "none" THEN <<FALSE, "Bucket 'photos' nao encontrado">>
    ELSE IF b = "private" THEN <<FALSE, "O bucket 'photos' precisa ser PUBLIC">>
    ELSE IF e.service = "unset" THEN <<TRUE, "Aviso: Usando chave 'anon'">>
    ELSE <<TRUE, NullDetail>>

Health(db, storage) ==
    LET h == HealthOf(env, db, storage, bucket) IN
    /\ variant = "supabase"
    /\ Budget("Health")
    /\ work' = work + Cost("Health")
    /\ health' = [asked |-> TRUE, supabaseConnected |-> h[1], errorDetail |-> h[2],
                  db |-> db, storage |-> storage, bucket |-> bucket]
    /\ UNCHANGED <<storeVars, last, brandingVars, flight, pair, race, env, bucket,
                   panel, indicator>>

\* createBucket('photos', { public: true, ... }) on a project without one
NoBucketCreated(b) == b
BucketCreated(b) == IF b = "none" THEN "public" ELSE b

\* POST /api/admin/setup-storage: "already exists" is answered as a success
SetupStorage(auth, createOk) ==
    LET req == Request("SetupStorage", auth, 0, 0, NoFiles) IN
    /\ variant = "supabase"
    /\ Budget("SetupStorage")
    /\ UNCHANGED tainted
    /\ IF ~authMiddleware(auth)
       THEN Rejected(req, TRUE, 401, "Unauthorized")
       ELSE IF ~configured
       THEN Rejected(req, TRUE, 503, "Supabase nao configurado")
       ELSE IF ~createOk /\ bucket = "none"
       THEN Rejected(req, FALSE, 500, "createBucket failed")
       ELSE /\ bucket' = BucketCreated(bucket)
            /\ Answer(req, TRUE, 200, "", NoPhotos)
            /\ UNCHANGED <<variant, configured, clients, photos, dirs, clock,
                           nextUuid, uploaded, brandingVars, env, health, panel,
                           indicator>>

\* the project's owner creates, deletes or changes the bucket in the
\* Supabase dashboard
Dashboard(b) ==
    /\ variant = "supabase" /\ configured
    /\ Budget("Dashboard")
    /\ work' = work + Cost("Dashboard")
    /\ bucket' = b /\ b # bucket
    /\ UNCHANGED <<storeVars, last, brandingVars, flight, pair, race, env, health,
                   panel, indicator>>

InitHealth ==
    /\ InitStores /\ variant = "supabase"
    /\ env \in Envs /\ configured = getSupabase(env)
    /\ bucket = "none"
    /\ panel = PanelStart("perfile")
    /\ indicator = IndicatorStart
NextHealth ==
    \/ \E db \in CallOutcomes, storage \in CallOutcomes : Health(db, storage)
    \/ \E auth \in BOOLEAN, ok \in BOOLEAN : SetupStorage(auth, ok)
    \/ \E b \in {"none", "private", "public"} : Dashboard(b)
SpecHealth == InitHealth /\ [][NextHealth]_vars

(* ------------------------ unconfigured object storage ------------------ *)
InitUnconfigured == Init /\ variant = "supabase" /\ ~configured
NextUnconfigured ==
    \/ \E auth \in BOOLEAN : \E id \in Targets(auth) :
          SupabaseCreateClient(auth, id, TRUE)
    \/ \E auth \in BOOLEAN : \E id \in Targets(auth) :
          SupabaseDeleteClient(auth, id, TRUE, TRUE, TRUE)
    \/ \E auth \in BOOLEAN : \E id \in Targets(auth), files \in Bodies(auth) :
          SupabaseUpload(auth, id, files, 0)
    \/ \E auth \in BOOLEAN : \E id \in Targets(auth) :
          SupabaseDeletePhoto(auth, id, 0, TRUE)
    \/ \E id \in Candidates : SupabaseGetClient(id, TRUE, TRUE)
    \/ \E auth \in BOOLEAN, body \in LogoBodies :
          UpdateBranding(auth, body, TRUE, TRUE)
    \/ \E auth \in BOOLEAN : SetupStorage(auth, TRUE)
SpecUnconfigured == InitUnconfigured /\ [][NextUnconfigured]_vars

(* ----------------------------- admin panel ----------------------------- *)
\* panel.version: "perfile" is the panel that sends one request per file,
\* "batch" the one that sends the selection in one request.
\* panel.admin_pass: localStorage 'admin_pass' ("": no item);
\* panel.fetching: a tenant-list request is on its way;
\* panel.pc: where handleUpload stands ("ended": it returned or threw);
\* panel.loggedOut: the operator has logged out since the last login.
PanelVersions == {"perfile", "batch"}
Passwords == {"good", "bad"}
panelFrame == <<storeVars, last, work, brandingVars, flight, pair, race, env,
                bucket, health, indicator>>

\* the component is mounted: useState defaults, then the mount effect
\* restores admin_pass, and the isLoggedIn effect stores it and fetches
Mount ==
    /\ ~panel.mounted
    /\ panel' = [PanelStart(panel.version) EXCEPT
                    !.mounted = TRUE,
                    !.admin_pass = panel.admin_pass,
                    !.loggedOut = panel.loggedOut,
                    !.password = panel.admin_pass,
                    !.isLoggedIn = panel.admin_pass # "",
                    !.fetching = panel.admin_pass # ""]
    /\ UNCHANGED panelFrame

\* the page is closed or reloaded: the component's state is gone, local
\* storage stays
Unmount ==
    /\ panel.mounted
    /\ panel' = [PanelStart(panel.version) EXCEPT
                    !.admin_pass = panel.admin_pass,
                    !.loggedOut = panel.loggedOut]
    /\ UNCHANGED panelFrame

\* handleLogin with the typed password; verified: /api/admin/verify answered
\* ok.  The isLoggedIn effect stores the password and fetches the clients.
HandleLogin(typed, verified) ==
    /\ panel.mounted /\ ~panel.isLoggedIn
    /\ verified => typed = "good"
    /\ panel' = IF verified
                THEN [panel EXCEPT !.password = typed, !.isLoggedIn = TRUE,
                                   !.admin_pass = typed, !.fetching = TRUE,
                                   !.loggedOut = FALSE]
                ELSE [panel EXCEPT !.password = typed]
    /\ UNCHANGED panelFrame

\* fetchClients gets its answer: anything but res.ok logs the panel out
FetchClientsDone(ok) ==
    /\ panel.mounted /\ panel.fetching
    /\ ok => panel.password = "good"
    /\ panel' = [panel EXCEPT !.fetching = FALSE,
                              !.isLoggedIn = IF ok THEN @ ELSE FALSE]
    /\ UNCHANGED panelFrame

\* handleLogout of the per-file panel; the batch panel's logout button only
\* calls setIsLoggedIn(false)
HandleLogout(p) ==
    IF p.version = "perfile"
    THEN [p EXCEPT !.admin_pass = "", !.isLoggedIn = FALSE, !.password = ""]
    ELSE [p EXCEPT !.isLoggedIn = FALSE]
Logout ==
    /\ panel.mounted /\ panel.isLoggedIn
    /\ panel' = [HandleLogout(panel) EXCEPT !.loggedOut = TRUE]
    /\ UNCHANGED panelFrame

\* handleUpload begins: setUploading(true)
SelectFiles(n) ==
    /\ panel.mounted /\ panel.isLoggedIn /\ ~panel.uploading
    /\ panel' = [panel EXCEPT !.uploading = TRUE, !.pc = "sending", !.files = n,
                              !.i = 0, !.successCount = 0, !.failCount = 0]
    /\ UNCHANGED panelFrame

\* per-file panel: the request for file i ends with res.ok, with an error
\* answer, or with fetch rejecting; each is counted
FileOutcomes == {"ok", "error", "network"}
FileDone(outcome) ==
    /\ panel.mounted /\ panel.version = "perfile"
    /\ panel.pc = "sending" /\ panel.i < panel.files
    /\ panel' = [panel EXCEPT
                    !.i = @ + 1,
                    !.successCount = IF outcome = "ok" THEN @ + 1 ELSE @,
                    !.failCount = IF outcome = "ok" THEN @ ELSE @ + 1]
    /\ UNCHANGED panelFrame
\* per-file panel, after the loop: alert, fetchPhotos, setUploading(false)
LoopDone ==
    /\ panel.mounted /\ panel.version = "perfile"
    /\ panel.pc = "sending" /\ panel.i = panel.files
    /\ panel' = [panel EXCEPT !.pc = "ended", !.uploading = FALSE]
    /\ UNCHANGED panelFrame

\* batch panel: the one request ends with res.ok, with an error answer whose
\* body is JSON or not (res.json() rejects), or with fetch rejecting; the two
\* rejections are not caught, so setUploading(false) is not reached
BatchOutcomes == {"ok", "error", "notjson", "network"}
BatchDone(outcome) ==
    /\ panel.mounted /\ panel.version = "batch"
    /\ panel.pc = "sending"
    /\ panel' = [panel EXCEPT !.pc = "ended", !.i = panel.files,
                              !.uploading = outcome \in {"notjson", "network"}]
    /\ UNCHANGED panelFrame

InitPanel ==
    /\ InitStores /\ variant = "supabase" /\ configured
    /\ env = PlainEnv(TRUE) /\ bucket = "public"
    /\ panel \in {PanelStart(v) : v \in PanelVersions}
    /\ indicator = IndicatorStart
NextPanel ==
    \/ Mount
    \/ Unmount
    \/ \E typed \in Passwords, verified \in BOOLEAN : HandleLogin(typed, verified)
    \/ \E ok \in BOOLEAN : FetchClientsDone(ok)
    \/ Logout
    \/ \E n \in 0..MaxSelected : SelectFiles(n)
    \/ \E outcome \in FileOutcomes : FileDone(outcome)
    \/ LoopDone
    \/ \E outcome \in BatchOutcomes : BatchDone(outcome)
SpecPanel == InitPanel /\ [][NextPanel]_vars

(* --------------------------- status indicator -------------------------- *)
\* indicator.status: the component's state; indicator.inFlight: calls of
\* checkStatus awaiting their answer; indicator.polls: calls that returned;
\* indicator.outcome: how the latest one returned; indicator.good: what the
\* latest successful one stored.
ConnectionError == "Erro ao conectar com a API"
\* fields of the JSON body of GET /api/health as the component reads them
HealthBodies ==
    [supabaseConnected : {"true", "false", "missing"},
     errorDetail : {"missing", "", "detail"},
     version : {"missing", "1.0.0"},
     setupGuide : {"missing", "guide"}]
\* data.x || fallback
OrElse(x, fallback) == IF x \in {"missing", ""} THEN fallback ELSE x
Succeeded(data) ==
    [supabaseConnected |-> data.supabaseConnected = "true",
     errorDetail |-> OrElse(data.errorDetail, NullDetail),
     version |-> OrElse(data.version, "0.0.0"),
     loading |-> FALSE,
     setupGuide |-> OrElse(data.setupGuide, "null")]
FailedFromDefaults(prev) ==
    [IndicatorStart.status EXCEPT !.loading = FALSE,
                                  !.errorDetail = ConnectionError]
Failed(prev) == [prev EXCEPT !.loading = FALSE, !.errorDetail = ConnectionError]
indicatorFrame == <<storeVars, last, work, brandingVars, flight, pair, race,
                    env, bucket, health, panel>>

\* checkStatus is called, at mount and then by the 30 s interval
PollStart ==
    /\ indicator.inFlight < MaxInFlight
    /\ indicator.polls + indicator.inFlight < MaxPolls
    /\ indicator' = [indicator EXCEPT !.inFlight = @ + 1]
    /\ UNCHANGED indicatorFrame
\* a call returns through the try block: res.ok and a JSON body
PollSucceed(data) ==
    /\ indicator.inFlight > 0
    /\ indicator' = [indicator EXCEPT
                        !.inFlight = @ - 1, !.polls = @ + 1,
                        !.outcome = "ok",
                        !.status = Succeeded(data),
                        !.good = [supabaseConnected |-> Succeeded(data).supabaseConnected,
                                  version |-> Succeeded(data).version,
                                  setupGuide |-> Succeeded(data).setupGuide]]
    /\ UNCHANGED indicatorFrame
\* a call returns through the catch block
PollFail ==
    /\ indicator.inFlight > 0
    /\ indicator' = [indicator EXCEPT
                        !.inFlight = @ - 1, !.polls = @ + 1,
                        !.outcome = "failed",
                        !.status = Failed(indicator.status)]
    /\ UNCHANGED indicatorFrame

InitIndicator ==
    /\ InitStores /\ variant = "supabase" /\ configured
    /\ env = PlainEnv(TRUE) /\ bucket = "public"
    /\ panel = PanelStart("perfile")
    /\ indicator = IndicatorStart
NextIndicator ==
    \/ PollStart
    \/ \E data \in HealthBodies : PollSucceed(data)
    \/ PollFail
SpecIndicator == InitIndicator /\ [][NextIndicator]_vars

(* ------------------------------ claims --------------------------------- *)
\* the error kinds of the contract, read off the responses
QuotaExceeded(r) ==
    /\ r.status = 400
    /\ r.error \in {"Limite de 4 clientes atingido", "Limite de 30 fotos atingido"}
UnsupportedType(r) == r.status # 200 /\ r.error = "Invalid file type"
FileTooLarge(r) == r.status # 200 /\ r.error = "File too large"
\* the request passed the access gate, the backend is configured and none of
\* its calls failed
Served(r) == r.status \notin {401, 503} /\ r.backend
\* files every server accepts
AllValid(files) == \A i \in 1..Len(files) :
                      /\ files[i].mimetype \in allowedTypes
                      /\ files[i].size <= SupabaseFileSizeMB

\* C1: a CreateTenant request served while 4 tenants exist is rejected with
\* QuotaExceeded and leaves the tenant records as they were.
C1_CreateAtCapRejected ==
    [][(last'.op = "CreateTenant" /\ Served(last') /\ Len(clients) >= MaxClients)
        => (QuotaExceeded(last') /\ clients' = clients)]_vars

\* C2: between requests there are never more than 4 tenant records.
C2_TenantCap == Len(clients) <= MaxClients

\* C3: an UploadAssets batch of K valid files for a tenant holding N <= 30
\* assets stores exactly the first min(K, 30 - N) files and answers
\* QuotaExceeded when some file is left over; the tenant then holds
\* N + min(K, 30 - N) assets.
C3_BatchQuota ==
    [][(/\ last'.op = "UploadAssets" /\ Served(last')
        /\ Len(last'.files) >= 1 /\ AllValid(last'.files)
        /\ last'.id \in ClientIds
        /\ Cardinality(photos[last'.id]) <= MaxPhotos)
        => LET id == last'.id
               N == Cardinality(photos[id])
               K == Len(last'.files)
               fit == Min(K, MaxPhotos - N)
           IN /\ photos'[id] = photos[id] \cup Stored(last'.files, fit)
              /\ Cardinality(photos'[id]) = N + fit
              /\ (fit < K => QuotaExceeded(last'))]_vars

\* C4: between requests no tenant has more than 30 stored assets.
C4_AssetCap == \A i \in ClientIds : Cardinality(photos[i]) <= MaxPhotos

\* C5: between requests every stored asset lies under the id of an existing
\* tenant record.
C5_NoOrphans == \A i \in Ids : photos[i] # {} => i \in ClientIds

\* C6: a DeleteTenant(T) request that is served, whatever state it starts
\* in (T present, T already deleted, T's record left without blobs), is
\* answered with success and leaves no record of T and no asset under T.
C6_DeleteTenantIdempotent ==
    (last.op = "DeleteTenant" /\ Served(last))
    => (last.status = 200 /\ last.id \notin ClientIds /\ photos[last.id] = {})
\* a second DeleteTenant in a row for the id of the tenant that was created
\* and is gone
C6_Witness ==
    /\ last.op = "DeleteTenant" /\ last.repeat /\ last.status = 200 /\ last.backend
    /\ clock >= 1 /\ clients = << >>

\* C7: a DeleteAsset request that is served for a tenant's key that is not
\* stored is answered with success.
C7_DeleteAbsentSucceeds ==
    [][(/\ last'.op = "DeleteAsset" /\ Served(last')
        /\ last'.id \in ClientIds
        /\ last'.name \notin Names(photos[last'.id]))
        => last'.status = 200]_vars

\* C8: an upload to a tenant with a file whose declared content type is
\* outside the allowed set is rejected with UnsupportedType and no object of
\* such a type is stored (so none can be listed later).
C8_UnsupportedTypeRejected ==
    [][(/\ last'.op = "UploadAssets" /\ Served(last')
        /\ last'.id \in ClientIds
        /\ \E i \in 1..Len(last'.files) : last'.files[i].mimetype \notin allowedTypes)
        => (/\ UnsupportedType(last')
            /\ \A j \in Ids : \A f \in photos'[j] : f.mimetype \in allowedTypes)]_vars

\* C9: an UploadAssets request for a tenant that is answered with
\* QuotaExceeded or FileTooLarge leaves the assets stored under the tenant
\* as they were.
C9_RejectedUploadNoEffect ==
    [][(/\ last'.op = "UploadAssets" /\ last'.id \in ClientIds
        /\ (QuotaExceeded(last') \/ FileTooLarge(last')))
        => photos'[last'.id] = photos[last'.id]]_vars

\* C10: for an existing tenant T that only successful UploadAssets and
\* DeleteAsset requests have named, a served ListGallery(T) returns one entry
\* per asset uploaded to T and not yet deleted, and no other entry, each with
\* a URL made of T and the asset's key.
C10_GalleryExact ==
    (last.op = "ListGallery" /\ last.status = 200 /\ last.backend
     /\ last.id \notin tainted)
    => /\ Len(last.photos) = Cardinality(uploaded[last.id])
       /\ {last.photos[i].name : i \in 1..Len(last.photos)} = uploaded[last.id]
       /\ \A i \in 1..Len(last.photos) :
             /\ last.photos[i].url[2] = last.id
             /\ last.photos[i].url[3] = last.photos[i].name
\* a gallery listed after an upload and the deletion of one of its assets
C10_Witness ==
    /\ last.op = "ListGallery" /\ last.status = 200 /\ last.backend
    /\ last.id \notin tainted
    /\ Len(last.photos) >= 1
    /\ nextUuid > Len(last.photos)
    /\ UsedIds = {last.id}

NotFound(r) == r.status = 404
Unauthorized(r) == r.status = 401 /\ r.error = "Unauthorized"
Mutating == {"CreateTenant", "DeleteTenant", "UploadAssets", "DeleteAsset",
             "UpdateBranding"}

\* C11: a ListGallery(id) request that reaches a configured server is
\* answered with NotFound exactly when no tenant record with that id exists.
C11_NotFoundIffNoRecord ==
    (last.op = "ListGallery" /\ last.status # 503)
    => (NotFound(last) <=> last.id \notin ClientIds)

\* C12: a GetSettings request is answered with success and { logo: null }
\* whenever there is no branding record, and a GetSettings request whose
\* query succeeds after a successful UpdateBranding is answered with the
\* non-null logo that the last successful UpdateBranding answered.
C12_SettingsAfterUpdate ==
    last.op = "GetSettings"
    => /\ last.status = 200
       /\ settings = NullLogo => last.logo = NullLogo
       /\ (returned # NullLogo /\ last.backend)
          => (last.logo = returned /\ last.logo # NullLogo)
C12_Witness ==
    /\ last.op = "GetSettings" /\ last.backend
    /\ returned # NullLogo /\ last.logo = returned
    /\ Cardinality(logos) = 2

\* C13: a successful UpdateBranding that follows a successful UpdateBranding
\* writes the same storage key, whatever the extension of the file: the logo
\* it answers is the one answered before and one logo object is stored.
C13_FixedLogoKey ==
    [][(last'.op = "UpdateBranding" /\ last'.status = 200 /\ returned # NullLogo)
       => (last'.logo = returned /\ settings' = settings
           /\ Cardinality(logos') = 1)]_vars

\* C14: in every server variant, a mutating request that does not carry the
\* operator secret is answered with Unauthorized and changes no tenant
\* record, no asset and no directory.
C14_UnauthorizedRejected ==
    [][(last'.op \in Mutating /\ ~last'.auth)
       => (Unauthorized(last') /\ UNCHANGED <<clients, photos, dirs>>)]_vars

\* C15: a ListTenants request that is served returns all the tenant records,
\* the most recently created first (the records have distinct ids).
C15_NewestFirst ==
    (last.op = "ListTenants" /\ Served(last)
     /\ Cardinality(ClientIds) = Len(clients))
    => /\ Range(last.clients) = Range(clients)
       /\ Len(last.clients) = Len(clients)
       /\ \A i, j \in DOMAIN last.clients :
              i < j => last.clients[i].createdAt > last.clients[j].createdAt

\* C16: after every request that both servers have answered, a request that
\* creates or deletes a tenant or names a tenant both servers hold, the two
\* answers have the same status and the two servers hold the same tenants
\* and, for every tenant, the same number of assets.
C16_SameContract ==
    (/\ pair.stage = "B" /\ Answered
     /\ \/ last.op \in {"CreateTenant", "DeleteTenant"}
        \/ last.id \in ClientIds \cap OtherClientIds)
    => /\ last.status = pair.resp.status
       /\ ClientIds = OtherClientIds
       /\ \A i \in Ids :
             Cardinality(photos[i]) = Cardinality(pair.other.photos[i])

\* C17: when the backend fails to store one file of an UploadAssets batch
\* for an existing tenant, every other file of the batch is still stored and
\* nothing stored before the failure is removed.
C17_BatchContinues ==
    [][(last'.op = "UploadAssets" /\ last'.status \notin {401, 503}
        /\ ~last'.backend /\ last'.id \in ClientIds)
       => /\ photos[last'.id] \subseteq photos'[last'.id]
          /\ Cardinality(photos'[last'.id] \ photos[last'.id])
                = Len(last'.files) - 1]_vars

\* C18: at every step of a DeleteTenant(T) that found a record of T, and in
\* the state a crash between two steps leaves, T's record is not absent
\* while an asset is still stored under T.
C18_BlobsBeforeRecord ==
    (flight.pc \in {"saved", "listed", "removed", "crashed"} /\ flight.had)
    => ~(flight.id \notin ClientIds /\ photos[flight.id] # {})

\* C19: a DeleteTenant(T) request during which the listing or the removal of
\* T's blobs fails, T having a record and blobs, leaves T's record in place
\* and is answered with a failure.
C19_BlobFailureKeepsRecord ==
    [][(last'.op = "DeleteTenant" /\ last'.status \notin {401, 503}
        /\ ~last'.backend /\ last'.id \in ClientIds /\ photos[last'.id] # {})
       => (last'.status # 200 /\ clients' = clients)]_vars

\* C20: a read request whose backend call fails is not answered as an empty
\* success: ListTenants does not answer with an empty list while tenant
\* records exist, nor ListGallery with an empty photo list while the tenant
\* has assets.
C20_ReadFailureSurfaced ==
    ~last.backend
    => /\ (last.op = "ListTenants" /\ clients # << >>)
          => ~(last.status = 200 /\ last.clients = << >>)
       /\ (last.op = "ListGallery" /\ photos[last.id] # {})
          => ~(last.status = 200 /\ last.photos = << >>)

\* C21 as stated: with exactly 3 tenants stored, two CreateTenant requests
\* that overlap both succeed and leave 5 tenant records.
C21_RacePastCap ==
    RaceDone => (last.status = 200 /\ Len(clients) = MaxClients + 1)

\* C21, amended: overlapping requests are answered as sequential ones are.
\* In the filesystem servers the second of two CreateTenant requests that
\* overlap at 3 tenants is rejected with QuotaExceeded and 4 records remain;
\* in the object-storage server, which has no count check, both succeed.
C21_CapUnderOverlap ==
    RaceDone
    => IF variant = "supabase"
       THEN last.status = 200 /\ Len(clients) = MaxClients + 1
       ELSE QuotaExceeded(last) /\ Len(clients) = MaxClients
C21_Witness ==
    /\ RaceDone /\ variant = "vercel"
    /\ QuotaExceeded(last) /\ Len(clients) = MaxClients

\* C22: no two tenant records share an id, whatever id the generator
\* returns.
C22_UniqueIds == Cardinality(ClientIds) = Len(clients)

\* C23: an UpdateBranding request whose blob write fails leaves the settings
\* record and the stored logos as they were, one whose settings write fails
\* has written the blob and left the settings record, and the settings
\* record only ever references a logo that is stored.
LogoStored(url) == \E o \in logos : SupabasePublicUrl("branding", o.name) = url
C23_BlobBeforeSettings ==
    [][/\ (last'.op = "UpdateBranding" /\ last'.error = "upload failed")
          => UNCHANGED <<settings, logos>>
       /\ (last'.op = "UpdateBranding" /\ last'.error = "upsert failed")
          => (settings' = settings
              /\ \E o \in logos' : o.name = LogoName(last'.files[1].ext)
                                   /\ o.data = last'.files[1].data)
       /\ settings' # NullLogo => LogoStored(settings)']_vars
C23_Witness ==
    /\ last.op = "UpdateBranding" /\ last.error = "upload failed"
    /\ settings # NullLogo /\ LogoStored(settings)
    /\ last.files[1].ext # settings[3][2]

\* C25: a DeleteTenant, UploadAssets or DeleteAsset request that names an
\* existing tenant T leaves the records and the assets of every other
\* existing tenant as they were, and a DeleteAsset request leaves the records as they were and removes
\* at most one asset of T.
RecordsOf(cs, id) == SelectSeq(cs, LAMBDA c : c.id = id)
C25_TenantIsolation ==
    [][(last'.op \in {"DeleteTenant", "UploadAssets", "DeleteAsset"}
        /\ work' # work /\ last'.id \in ClientIds)
       => /\ \A u \in ClientIds \ {last'.id} :
                /\ photos'[u] = photos[u]
                /\ RecordsOf(clients', u) = RecordsOf(clients, u)
          /\ last'.op = "DeleteAsset"
             => /\ clients' = clients
                /\ last'.id \in Ids
                   => /\ photos'[last'.id] \subseteq photos[last'.id]
                      /\ Cardinality(photos[last'.id] \ photos'[last'.id]) <= 1]_vars

GuardedOps == Mutating \cup {"SetupStorage", "ListGallery"}
NoStoreChange == UNCHANGED <<clients, photos, dirs, settings, logos, bucket>>
\* the body of the request got past multer and names a file where one is needed
WellFormed(r) ==
    CASE r.op = "UploadAssets" ->
             Len(r.files) > 0 /\ Len(r.files) <= MaxFiles
             /\ \A i \in DOMAIN r.files : r.files[i].size <= SupabaseFileSizeMB
      [] r.op = "UpdateBranding" ->
             Len(r.files) = 1 /\ r.files[1].size <= SupabaseFileSizeMB
      [] OTHER -> TRUE

\* C24 as stated: on the unconfigured object-storage server every mutating
\* request that carries the secret, and every ListGallery request, is
\* answered 503 and changes nothing.
C24_UnconfiguredAlways503 ==
    [][(last'.op \in GuardedOps /\ last'.auth /\ work' # work)
       => (last'.status = 503 /\ NoStoreChange)]_vars

\* C24, amended: on the unconfigured object-storage server no request of
\* these operations changes a record, an asset, a setting or the bucket, and
\* every such request that carries the secret and a well-formed body is
\* answered 503; a request with no file, or with a file multer refuses, is
\* answered 400 or 500 before the configuration is looked at.
C24_UnconfiguredNoEffect ==
    [][(last'.op \in GuardedOps /\ work' # work)
       => /\ NoStoreChange
          /\ (last'.auth /\ WellFormed(last')) => last'.status = 503
          /\ (last'.auth /\ ~WellFormed(last')) => last'.status \in {400, 500}
          /\ ~last'.auth => last'.status = 401]_vars
C24_Witness ==
    /\ ~configured /\ last.op = "UploadAssets" /\ last.status = 503
    /\ Len(last.files) = SmallBatch

\* C26: the health check answers supabaseConnected = true only if URL and key
\* are configured, both backend calls succeeded and the bucket 'photos'
\* exists and is public, and errorDetail = null only if moreover the
\* service-role key is the one in use.
AllChecksPass ==
    /\ getSupabase(env)
    /\ health.db = "ok" /\ health.storage = "ok" /\ health.bucket = "public"
C26_HealthSound ==
    health.asked
    => /\ health.supabaseConnected => AllChecksPass
       /\ health.errorDetail = NullDetail
          => (AllChecksPass /\ env.service = "set" /\ health.supabaseConnected)
C26_Witness ==
    /\ health.asked /\ health.supabaseConnected /\ health.errorDetail # NullDetail
    /\ env.anon = "set" /\ last.op = "SetupStorage" /\ last.status = 200

\* C27: when handleUpload has ended, whatever the outcomes of its requests,
\* 'uploading' is false again, and in the per-file panel the success and
\* failure counters sum to the number of selected files.
C27_UploadFinishes ==
    panel.pc = "ended"
    => /\ ~panel.uploading
       /\ panel.version = "perfile"
          => panel.successCount + panel.failCount = panel.files

\* C28: once a health poll has returned, 'loading' is false; and when the
\* latest poll to return has failed, errorDetail is the connection-error
\* message while supabaseConnected, version and setupGuide are those stored
\* by the last successful poll (the initial ones if none succeeded yet).
C28_FailedPollKeepsLast ==
    indicator.polls >= 1
    => /\ ~indicator.status.loading
       /\ indicator.outcome = "failed"
          => /\ indicator.status.errorDetail = ConnectionError
             /\ indicator.status.supabaseConnected = indicator.good.supabaseConnected
             /\ indicator.status.version = indicator.good.version
             /\ indicator.status.setupGuide = indicator.good.setupGuide
\* a poll failed after one that had stored a connected status with a guide
C28_Witness ==
    /\ indicator.polls >= 2 /\ indicator.outcome = "failed"
    /\ indicator.status.supabaseConnected
    /\ indicator.status.version = "1.0.0"
    /\ indicator.status.setupGuide = "guide"
    /\ indicator.status.errorDetail = ConnectionError

\* C29: once the operator has logged out, local storage holds no admin
\* secret (so the next mount starts logged out), and a tenant-list request
\* that is rejected leaves the panel logged out.
C29_LogoutClearsSecret ==
    [][/\ panel'.loggedOut => (panel'.admin_pass = "" /\ ~panel'.isLoggedIn)
       /\ (panel.fetching /\ ~panel'.fetching /\ panel'.mounted
           /\ panel.password # "good")
          => ~panel'.isLoggedIn]_vars

====
